---- MODULE Spec2Model ----
(***************************************************************************)
(* FAQ chatbot backend: the FAQ matcher (faq_search.py), the Gemini        *)
(* fallback (gemini_ai.py), the session store (database.py) and the /chat  *)
(* and /reset handlers (app.py).                                           *)
(*                                                                         *)
(* Python strings are modelled as sequences of one-character strings, so   *)
(* that lower(), split(), strip(), `in` and concatenation are computed as  *)
(* the interpreter computes them.                                          *)
(*                                                                         *)
(* Scores are kept in units of 0.5 (the smallest increment of the scorer), *)
(* so that they stay integers: the code's 2, 1, 0.5 and 20 are 4, 2, 1 and *)
(* 40 here.  Sums of multiples of 0.5 are exact in binary floating point.  *)
(***************************************************************************)
EXTENDS Integers, Sequences, FiniteSets, TLC

(***************************************************************************)
(* Python string primitives                                                *)
(***************************************************************************)

\* str.lower() on one character (ASCII letters)
UpperToLower ==
  [A |-> "a", B |-> "b", C |-> "c", D |-> "d", E |-> "e", F |-> "f", G |-> "g",
   H |-> "h", I |-> "i", J |-> "j", K |-> "k", L |-> "l", M |-> "m", N |-> "n",
   O |-> "o", P |-> "p", Q |-> "q", R |-> "r", S |-> "s", T |-> "t", U |-> "u",
   V |-> "v", W |-> "w", X |-> "x", Y |-> "y", Z |-> "z"]

LowerChar(c) == IF c \in DOMAIN UpperToLower THEN UpperToLower[c] ELSE c

\* s.lower()
Lower(s) == [i \in 1..Len(s) |-> LowerChar(s[i])]

\* the characters str.split() and str.strip() treat as whitespace
Whitespace == {" ", "\t", "\n", "\r"}

IsSpace(c) == c \in Whitespace

\* s.split(): the maximal runs of non-whitespace characters, in order
RECURSIVE SplitFrom(_, _, _, _)
SplitFrom(s, i, cur, acc) ==
  IF i > Len(s)
    THEN (IF cur = <<>> THEN acc ELSE Append(acc, cur))
    ELSE IF IsSpace(s[i])
      THEN SplitFrom(s, i + 1, <<>>, IF cur = <<>> THEN acc ELSE Append(acc, cur))
      ELSE SplitFrom(s, i + 1, Append(cur, s[i]), acc)

Split(s) == SplitFrom(s, 1, <<>>, <<>>)

\* s.strip(): leading and trailing whitespace removed
RECURSIVE LStrip(_)
LStrip(s) == IF s # <<>> /\ IsSpace(Head(s)) THEN LStrip(Tail(s)) ELSE s

RECURSIVE RStrip(_)
RStrip(s) ==
  IF s # <<>> /\ IsSpace(s[Len(s)]) THEN RStrip(SubSeq(s, 1, Len(s) - 1)) ELSE s

Strip(s) == RStrip(LStrip(s))

\* a in b  (substring test; the empty string is in every string)
StrIn(a, b) ==
  \E k \in 0..(Len(b) - Len(a)) : SubSeq(b, k + 1, k + Len(a)) = a

\* pandas' missing value (an empty CSV field is read as NaN); no string, since
\* every element of a string is one character
NaN == <<"NaN">>

\* pd.notna(x)
NotNa(x) == x # NaN

\* best_match = None: no row (rows are numbered from 1)
None == 0

(***************************************************************************)
(* FAQSearch.search_faq                                                    *)
(***************************************************************************)

\* score += 2 (in units of 0.5)
QUESTION_MATCH == 4
\* score += 1
KEYWORD_MATCH == 2
\* score += 0.5
ANSWER_MATCH == 1
\* best_score > 20
MATCH_THRESHOLD == 40

\* a mutation of the test below: only q_word in f_word
WordOverlapOneWay(q_word, f_word) == StrIn(q_word, f_word)

\* a mutation of the test below: only f_word in q_word
WordOverlapOtherWay(q_word, f_word) == StrIn(f_word, q_word)

\* q_word in f_word or f_word in q_word
WordOverlap(q_word, f_word) == StrIn(q_word, f_word) \/ StrIn(f_word, q_word)

\* for f_word in words: if overlap(q_word, f_word): score += weight
\* (what the inner loop adds to score, from the j-th word on)
RECURSIVE InnerLoop(_, _, _, _)
InnerLoop(q_word, words, weight, j) ==
  IF j > Len(words)
    THEN 0
    ELSE (IF WordOverlap(q_word, words[j]) THEN weight ELSE 0)
         + InnerLoop(q_word, words, weight, j + 1)

\* for q_word in query_words: for f_word in words: ...
\* (what the nested loops add to score, from the i-th query word on)
RECURSIVE WordLoop(_, _, _, _)
WordLoop(query_words, words, weight, i) ==
  IF i > Len(query_words)
    THEN 0
    ELSE InnerLoop(query_words[i], words, weight, 1)
         + WordLoop(query_words, words, weight, i + 1)

\* str.split(" "): the pieces between single spaces, the empty ones included
SplitOnSpace(s) ==
  LET cuts   == {0, Len(s) + 1} \cup { i \in 1..Len(s) : s[i] = " " }
      nth(k) == CHOOSE c \in cuts : Cardinality({ d \in cuts : d < c }) = k - 1
  IN  [k \in 1..(Cardinality(cuts) - 1) |-> SubSeq(s, nth(k) + 1, nth(k + 1) - 1)]

\* a mutation of the list below: the field is split at single spaces
KeywordsOfSplitOnSpace(row) ==
  LET parts == SplitOnSpace(row.keywords)
  IN  [i \in 1..Len(parts) |-> Lower(Strip(parts[i]))]

\* keywords = [k.strip().lower() for k in str(row['keywords']).split()]
KeywordsOf(row) ==
  LET parts == Split(row.keywords)
  IN  [i \in 1..Len(parts) |-> Lower(Strip(parts[i]))]

\* for keyword in keywords: if keyword in query_lower: score += 1
\* (what the loop adds to score, from the i-th keyword on)
RECURSIVE KeywordLoop(_, _, _)
KeywordLoop(keywords, query_lower, i) ==
  IF i > Len(keywords)
    THEN 0
    ELSE (IF StrIn(keywords[i], query_lower) THEN KEYWORD_MATCH ELSE 0)
         + KeywordLoop(keywords, query_lower, i + 1)

\* if 'keywords' in row and pd.notna(row['keywords']): the keyword loop
KeywordScore(row, query_lower) ==
  IF "keywords" \in DOMAIN row /\ NotNa(row.keywords)
    THEN KeywordLoop(KeywordsOf(row), query_lower, 1)
    ELSE 0

\* the first pass of the body: what the words of the question add to score
QuestionScore(query, row) ==
  WordLoop(Split(Lower(query)), Split(Lower(row.question)), QUESTION_MATCH, 1)

\* the body of the loop over the rows: score = 0, then the three passes
RowScore(query, row) ==
  LET query_lower    == Lower(query)
      question_words == Split(Lower(row.question))
      query_words    == Split(query_lower)
      answer_words   == Split(Lower(row.answer))
  IN  0 + WordLoop(query_words, question_words, QUESTION_MATCH, 1)
        + KeywordScore(row, query_lower)
        + WordLoop(query_words, answer_words, ANSWER_MATCH, 1)

\* a mutation of the test below: a later row with an equal score wins
BetterNonStrict(score, best_score) == score >= best_score

\* if score > best_score: best_score = score; best_match = row
Better(score, best_score) == score > best_score

\* for _, row in self.faq_data.iterrows(): ...  (best is [score, match])
RECURSIVE ScanRows(_, _, _, _)
ScanRows(query, faq_data, i, best) ==
  IF i > Len(faq_data)
    THEN best
    ELSE LET score == RowScore(query, faq_data[i])
         IN  ScanRows(query, faq_data, i + 1,
                      IF Better(score, best.best_score)
                        THEN [best_score |-> score, best_match |-> i]
                        ELSE best)

\* best_match = None; best_score = 0; the loop
BestOf(query, faq_data) ==
  ScanRows(query, faq_data, 1, [best_score |-> 0, best_match |-> None])

\* a mutation of the test below: >= in place of >
GoodMatchNonStrict(best) ==
  best.best_match # None /\ best.best_score >= MATCH_THRESHOLD

\* if best_match is not None and best_score > 20
GoodMatch(best) == best.best_match # None /\ best.best_score > MATCH_THRESHOLD

\* a mutation of the function below: a canned answer when there is no row
SearchFaqCannedAnswer(query, faq_data) ==
  IF faq_data = <<>>
    THEN <<"N", "o", " ", "F", "A", "Q">>
    ELSE LET best == BestOf(query, faq_data)
         IN  IF GoodMatch(best) THEN faq_data[best.best_match].answer ELSE <<>>

\* search_faq(query): the answer of the best row, or "" (here <<>>)
search_faq(query, faq_data) ==
  IF faq_data = <<>>
    THEN <<>>
    ELSE LET best == BestOf(query, faq_data)
         IN  IF GoodMatch(best) THEN faq_data[best.best_match].answer ELSE <<>>

\* scenario 1 of the specification
Q_RESET ==
  <<"h","o","w"," ","d","o"," ","i"," ","r","e","s","e","t"," ","m","y"," ","p","a","s","s","w",
    "o","r","d">>
\* scenario 2 of the specification
Q_WEATHER ==
  <<"w","h","a","t"," ","i","s"," ","t","h","e"," ","w","e","a","t","h","e","r"," ","t","o","d",
    "a","y">>
\* a query that clears the matcher's threshold on the scenario corpus
Q_RESET_TWICE ==
  <<"H","o","w"," ","d","o"," ","I"," ","r","e","s","e","t"," ","m","y"," ","p","a","s","s","w",
    "o","r","d","?"," ","h","o","w"," ","d","o"," ","i"," ","r","e","s","e","t"," ","m","y"," ",
    "p","a","s","s","w","o","r","d">>
\* five words
Q_A5 ==
  <<"a"," ","a"," ","a"," ","a"," ","a">>
\* four words
Q_A4 ==
  <<"a"," ","a"," ","a"," ","a">>
\* five words, upper case and runs of whitespace
Q_MIXED ==
  <<" ","A"," "," ","a","\t","a"," ","A"," ","a"," ">>
Q_EMPTY ==
<<>>
Q_BLANK ==
  <<" "," ">>
\* the record of the specification's end-to-end scenarios
FAQ_QUESTION ==
  <<"H","o","w"," ","d","o"," ","I"," ","r","e","s","e","t"," ","m","y"," ","p","a","s","s","w",
    "o","r","d","?">>
FAQ_ANSWER ==
  <<"V","i","s","i","t"," ","S","e","t","t","i","n","g","s"," ",">"," ","P","a","s","s","w","o",
    "r","d",".">>
FAQ_KEYWORDS ==
  <<"p","a","s","s","w","o","r","d"," ","r","e","s","e","t">>
\* short texts the bounded corpora are built from
T_AA ==
  <<"a"," ","a">>
T_AAA ==
  <<"a"," ","a"," ","a">>
T_AUA ==
  <<"a"," ","A"," ","a">>
T_A ==
  <<"a">>
T_X ==
  <<"x">>
T_Y ==
  <<"y">>
T_Z ==
  <<"z">>
T_KW ==
  <<" ","A"," "," ","b"," ">>

Row(q, a, k) == [question |-> q, answer |-> a, keywords |-> k]

FAQ_ROW == Row(FAQ_QUESTION, FAQ_ANSWER, FAQ_KEYWORDS)

\* the rows the bounded corpora are drawn from
RowPool ==
  { FAQ_ROW,
    Row(T_AA, T_Z, NaN),
    Row(T_AA, T_A, NaN),
    Row(T_AAA, T_X, NaN),
    Row(T_AUA, T_Y, NaN),
    Row(T_AA, T_Z, T_KW) }

MaxRows == 2

Corpora == UNION { [1..n -> RowPool] : n \in 0..MaxRows }

Queries ==
  { Q_RESET, Q_WEATHER, Q_RESET_TWICE, Q_A5, Q_A4, Q_MIXED, Q_EMPTY, Q_BLANK }

\* self.system_prompt
SYSTEM_PROMPT ==
  <<"Y","o","u"," ","a","r","e"," ","a"," ","h","e","l","p","f","u","l"," ","A","I"," ","c","u",
    "s","t","o","m","e","r"," ","s","u","p","p","o","r","t"," ","a","s","s","i","s","t","a","n",
    "t"," ","f","o","r"," ","U","n","t","h","i","n","k","a","b","l","e"," ","S","o","l","u","t",
    "i","o","n","s","."," ","\n","\n","Y","o","u","r"," ","r","o","l","e",":","\n","-"," ","P",
    "r","o","v","i","d","e"," ","a","c","c","u","r","a","t","e",","," ","h","e","l","p","f","u",
    "l"," ","r","e","s","p","o","n","s","e","s"," ","t","o"," ","c","u","s","t","o","m","e","r",
    " ","q","u","e","r","i","e","s","\n","-"," ","B","e"," ","p","o","l","i","t","e",","," ",
    "p","r","o","f","e","s","s","i","o","n","a","l",","," ","a","n","d"," ","e","m","p","a","t",
    "h","e","t","i","c","\n","-"," ","K","e","e","p"," ","r","e","s","p","o","n","s","e","s",
    " ","c","o","n","c","i","s","e"," ","b","u","t"," ","i","n","f","o","r","m","a","t","i","v",
    "e","\n","-"," ","I","f"," ","y","o","u"," ","d","o","n","'","t"," ","k","n","o","w"," ",
    "s","o","m","e","t","h","i","n","g",","," ","a","c","k","n","o","w","l","e","d","g","e"," ",
    "i","t"," ","a","n","d"," ","o","f","f","e","r"," ","t","o"," ","h","e","l","p"," ","f","i",
    "n","d"," ","t","h","e"," ","a","n","s","w","e","r","\n","-"," ","A","l","w","a","y","s",
    " ","e","n","d"," ","w","i","t","h"," ","a","s","k","i","n","g"," ","i","f"," ","t","h","e",
    "r","e","'","s"," ","a","n","y","t","h","i","n","g"," ","e","l","s","e"," ","y","o","u"," ",
    "c","a","n"," ","h","e","l","p"," ","w","i","t","h","\n","\n","G","u","i","d","e","l","i",
    "n","e","s",":","\n","-"," ","B","e"," ","f","r","i","e","n","d","l","y"," ","a","n","d",
    " ","a","p","p","r","o","a","c","h","a","b","l","e","\n","-"," ","U","s","e"," ","s","i",
    "m","p","l","e",","," ","c","l","e","a","r"," ","l","a","n","g","u","a","g","e","\n","-",
    " ","P","r","o","v","i","d","e"," ","s","t","e","p","-","b","y","-","s","t","e","p"," ","i",
    "n","s","t","r","u","c","t","i","o","n","s"," ","w","h","e","n"," ","h","e","l","p","f","u",
    "l","\n","-"," ","A","s","k"," ","c","l","a","r","i","f","y","i","n","g"," ","q","u","e",
    "s","t","i","o","n","s"," ","w","h","e","n"," ","n","e","e","d","e","d","\n","-"," ","M",
    "a","i","n","t","a","i","n"," ","a"," ","p","o","s","i","t","i","v","e"," ","t","o","n","e",
    " ","t","h","r","o","u","g","h","o","u","t"," ","t","h","e"," ","c","o","n","v","e","r","s",
    "a","t","i","o","n">>
\* the text before {str(e)} in the except branch
APOLOGY ==
  <<"I"," ","a","p","o","l","o","g","i","z","e",","," ","b","u","t"," ","I","'","m"," ","e","x",
    "p","e","r","i","e","n","c","i","n","g"," ","t","e","c","h","n","i","c","a","l"," ","d","i",
    "f","f","i","c","u","l","t","i","e","s","."," ","P","l","e","a","s","e"," ","t","r","y"," ",
    "a","g","a","i","n"," ","o","r"," ","c","o","n","t","a","c","t"," ","o","u","r"," ","s","u",
    "p","p","o","r","t"," ","t","e","a","m"," ","d","i","r","e","c","t","l","y","."," ","E","r",
    "r","o","r",":"," ">>
\* the literals of the f-strings that build the context
S_BLANK_LINE ==
  <<"\n","\n">>
S_PREVIOUS ==
  <<"P","r","e","v","i","o","u","s"," ","c","o","n","v","e","r","s","a","t","i","o","n",":",
    "\n">>
S_USER ==
  <<"U","s","e","r",":"," ">>
S_ASSISTANT ==
  <<"\n","A","s","s","i","s","t","a","n","t",":"," ">>
S_CURRENT ==
  <<"C","u","r","r","e","n","t"," ","u","s","e","r"," ","m","e","s","s","a","g","e",":"," ">>
\* a text the generation service answers with
AI_TEXT ==
  <<"S","u","r","e",".">>
\* str(e) of an exception raised by generate_content
ERR_QUOTA ==
  <<"4","2","9"," ","q","u","o","t","a">>
\* str(e) of an exception raised by reading response.text
ERR_NO_TEXT ==
  <<"n","o"," ","t","e","x","t">>

(***************************************************************************)
(* GeminiAI.generate_response                                              *)
(***************************************************************************)

\* conversation_history[-5:]
CONTEXT_TURNS == 5

\* a mutation of the slice below: conversation_history[:5]
FirstTurns(conversation_history) ==
  SubSeq(conversation_history, 1,
         IF Len(conversation_history) > CONTEXT_TURNS
           THEN CONTEXT_TURNS ELSE Len(conversation_history))

\* conversation_history[-5:]: a new list of the last 5 items, all when fewer
LastTurns(conversation_history) ==
  SubSeq(conversation_history,
         IF Len(conversation_history) > CONTEXT_TURNS
           THEN Len(conversation_history) - CONTEXT_TURNS + 1 ELSE 1,
         Len(conversation_history))

\* f"User: {msg['user']}\nAssistant: {msg['assistant']}\n\n"
RenderTurn(msg) == S_USER \o msg.user \o S_ASSISTANT \o msg.assistant \o S_BLANK_LINE

\* for msg in msgs: context += f"..."   (what the loop appends, from the i-th on)
RECURSIVE RenderTurns(_, _)
RenderTurns(msgs, i) ==
  IF i > Len(msgs) THEN <<>> ELSE RenderTurn(msgs[i]) \o RenderTurns(msgs, i + 1)

\* the context handed to generate_content
BuildContext(user_message, conversation_history) ==
  SYSTEM_PROMPT \o S_BLANK_LINE
    \o (IF conversation_history # <<>>
          THEN S_PREVIOUS \o RenderTurns(LastTurns(conversation_history), 1)
          ELSE <<>>)
    \o S_CURRENT \o user_message

\* what the external service does with one call: it answers with a text, or
\* generate_content raises, or reading response.text raises
Outcomes ==
  { [kind |-> "text", text |-> AI_TEXT, error |-> <<>>],
    [kind |-> "call_raises", text |-> <<>>, error |-> ERR_QUOTA],
    [kind |-> "text_raises", text |-> <<>>, error |-> ERR_NO_TEXT] }

\* the end of a call: the context generate_content was given, the value
\* returned or the exception raised, and what each call of the service did
Return(prompt, v, calls) ==
  [prompt |-> prompt, raised |-> FALSE, value |-> v, calls |-> calls]

Raise(prompt, e, calls) ==
  [prompt |-> prompt, raised |-> TRUE, value |-> e, calls |-> calls]

\* config.py: MAX_RETRY_ATTEMPTS = 3 (generate_response does not read it)
MAX_RETRY_ATTEMPTS == 3

\* a mutation of the try block below: a call that raises is made again, up
\* to MAX_RETRY_ATTEMPTS times
TryBodyRetrying(user_message, conversation_history, outcome) ==
  LET context == BuildContext(user_message, conversation_history)
  IN  IF outcome.kind = "call_raises"
        THEN Raise(context, outcome.error,
                   [i \in 1..MAX_RETRY_ATTEMPTS |-> outcome.kind])
      ELSE IF outcome.kind = "text_raises"
        THEN Raise(context, outcome.error, <<outcome.kind>>)
      ELSE Return(context, outcome.text, <<outcome.kind>>)

\* the try block: the context is built, generate_content is called with it,
\* once, and response.text is returned, unless one of the two raises
TryBody(user_message, conversation_history, outcome) ==
  LET context == BuildContext(user_message, conversation_history)
  IN  IF outcome.kind = "call_raises"
        THEN Raise(context, outcome.error, <<outcome.kind>>)
      ELSE IF outcome.kind = "text_raises"
        THEN Raise(context, outcome.error, <<outcome.kind>>)
      ELSE Return(context, outcome.text, <<outcome.kind>>)

\* a mutation of the handler below: the error text is left out
ExceptNoError(r) == IF r.raised THEN Return(r.prompt, APOLOGY, r.calls) ELSE r

\* a mutation of the handler below: the exception is not caught
ExceptReraises(r) == r

\* except Exception as e: return f"I apologize, ... Error: {str(e)}"
Except(r) ==
  IF r.raised THEN Return(r.prompt, APOLOGY \o r.value, r.calls) ELSE r

\* generate_response(user_message, conversation_history), the service doing
\* `outcome`
generate_response(user_message, conversation_history, outcome) ==
  Except(TryBody(user_message, conversation_history, outcome))


(***************************************************************************)
(* database.py: the sessions table                                         *)
(***************************************************************************)

\* no value (no string: its element is not one character)
NotRun == <<"NotRun">>

\* the table holds no row with this session_id
NoRow == <<"NoRow">>

SessionIds == {"s1", "s2"}

\* json.dumps(conversation_history): the text stored in the column
JsonDumps(value) == <<"json", value>>

\* json.loads(text)
JsonLoads(text) == text[2]

\* get_session_history(session_id): the stored list, [] when there is no row
get_session_history(table, session_id) ==
  IF table[session_id] # NoRow THEN JsonLoads(table[session_id]) ELSE <<>>

\* config.py: MAX_SESSION_MESSAGES = 100 (no code reads it)
MAX_SESSION_MESSAGES == 100

\* config.py: MAX_CONVERSATION_HISTORY = 20 (no code reads it)
MAX_CONVERSATION_HISTORY == 20

\* a mutation of the statement below: only the last
\* MAX_CONVERSATION_HISTORY turns are stored
SaveCapped(table, session_id, conversation_history) ==
  [table EXCEPT ![session_id] =
     JsonDumps(SubSeq(conversation_history,
                      IF Len(conversation_history) > MAX_CONVERSATION_HISTORY
                        THEN Len(conversation_history) - MAX_CONVERSATION_HISTORY + 1
                        ELSE 1,
                      Len(conversation_history)))]

\* a mutation of the statement below: the new list is added to the stored one
SaveAppending(table, session_id, conversation_history) ==
  [table EXCEPT ![session_id] =
     JsonDumps(get_session_history(table, session_id) \o conversation_history)]

\* save_session_history: INSERT OR REPLACE of the row of session_id
save_session_history(table, session_id, conversation_history) ==
  [table EXCEPT ![session_id] = JsonDumps(conversation_history)]

\* a mutation of the statement below: DELETE without WHERE
ClearAllSessions(table, session_id) == [s \in DOMAIN table |-> NoRow]

\* a mutation of the statement below: the row is kept, nothing is deleted
ClearNothing(table, session_id) == table

\* clear_session_history: DELETE FROM sessions WHERE session_id = ?
clear_session_history(table, session_id) ==
  [table EXCEPT ![session_id] = NoRow]

(***************************************************************************)
(* app.py: the /chat and /reset handlers                                   *)
(***************************************************************************)

Workers == {1, 2}

\* the chat requests accepted in one run of the model: when requests are
\* handled concurrently, and when they are handled one at a time
MaxRequests == 2

MaxSerialRequests == 3

\* request bodies: a JSON object with the two fields, either possibly missing
\* (None) or empty, or no JSON object at all
Missing == <<"None">>

Messages == {Q_RESET, Q_WEATHER, Q_RESET_TWICE}

NoJson == [json |-> FALSE, session_id |-> "", message |-> <<>>]

Body(session_id, message) ==
  [json |-> TRUE, session_id |-> session_id, message |-> message]

ValidBodies == { Body(s, m) : s \in SessionIds, m \in Messages }

InvalidBodies ==
  { NoJson, Body("None", Q_RESET), Body("", Q_RESET), Body("s1", Missing),
    Body("s1", <<>>) }

ChatBodies == ValidBodies \cup InvalidBodies

\* a mutation of the test below: only session_id is required
ValidChatSessionOnly(data) ==
  /\ data.json
  /\ data.session_id \notin {"None", ""}

\* not (not data) and not (not session_id or not message)
ValidChat(data) ==
  /\ data.json
  /\ data.session_id \notin {"None", ""}
  /\ data.message \notin {Missing, <<>>}

NoResponse == [status |-> 0, reply |-> <<>>, source |-> "", text |-> ""]

\* jsonify({"reply": reply, "source": source}), 200
ReplyResponse(reply, source) ==
  [status |-> 200, reply |-> reply, source |-> source, text |-> ""]

\* jsonify({"error": text}), status   and   jsonify({"message": text}), 200
TextResponse(status, text) ==
  [status |-> status, reply |-> <<>>, source |-> "", text |-> text]

\* a handler that is not running: no locals
IdleWorker ==
  [pc |-> "idle", session_id |-> "", message |-> <<>>,
   conversation_history |-> <<>>, reply |-> <<>>, source |-> "",
   context |-> NotRun, service |-> <<>>]

\* the response `response` goes to the caller whose request worker w handled
Sent(w, response) == [worker |-> w, response |-> response]

\* a mutation of the entry below: the source is always "FAQ"
NewEntryFaqSource(message, reply, source, now) ==
  [user |-> message, assistant |-> reply, source |-> "FAQ", timestamp |-> now]

\* new_entry = {"user": ..., "assistant": ..., "source": ..., "timestamp": ...}
NewEntry(message, reply, source, now) ==
  [user |-> message, assistant |-> reply, source |-> source, timestamp |-> now]

\* what the generation service does while the server runs
ServiceOutcomes == { o \in Outcomes : o.kind \in {"text", "call_raises"} }

SOURCE_FAQ == "FAQ"

SOURCE_AI == "Gemini AI"

\* chatbot_frontend.py is not running
NoFrontend ==
  [phase |-> "off", session_id_state |-> "", message |-> <<>>, posts |-> 0,
   chatbot |-> <<>>]

VARIABLES
  faq_data,        \* FAQSearch.faq_data: the rows of the CSV file, loaded once
  gemini_ai_defined, \* GeminiAI() did not raise when the server started
  frontend,        \* chatbot_frontend.py: the page of one user
  launcher,        \* launcher.py: the position of main and its locals
  processes,       \* the child processes of the launcher
  sq_query,        \* the argument of a direct call of search_faq
  sq_scores,       \* the value of `score` at the end of each pass of its loop
  sq_result,       \* what that call returned (NotRun before it)
  sq_both_ways,    \* the question scores of a pair of words, scored both ways
  gen_message,     \* the arguments of a direct call of generate_response
  gen_history,
  gen_outcome,     \* what the generation service does with that call
  gen_result,      \* how that call ended (NotCalled before it)
  sessions,        \* the sessions table: session_id -> conversation_history text
  workers,         \* the request handlers: position and locals
  sent,            \* the response sent last, and the worker that sent it
  clock,           \* datetime.now(), in ticks
  requests,        \* the chat requests accepted so far
  served,          \* per session: chat requests answered 200 since its last reset
  cleared          \* per session: a reset deleted its stored history, and no
                   \* chat request has stored one since

vars == <<faq_data, gemini_ai_defined, frontend, launcher, processes, sq_query, sq_scores, sq_result, sq_both_ways, gen_message, gen_history, gen_outcome,
          gen_result, sessions, workers, sent, clock, requests,
          served, cleared>>

launcherVars == <<launcher, processes>>

\* launcher.py is not running
NoLauncher ==
  /\ launcher = [pc |-> "off", argv |-> <<>>, command |-> "",
                 backend_process |-> FALSE,
                 frontend_process |-> FALSE, health |-> "none", output |-> ""]
  /\ processes = [backend |-> "none", frontend |-> "none"]

searchVars == <<sq_query, sq_scores, sq_result, sq_both_ways>>

genVars == <<gen_message, gen_history, gen_outcome, gen_result>>

serverVars == <<sessions, workers, sent, clock, requests, served, cleared>>

NotCalled == Return(NotRun, NotRun, <<>>)

\* no direct call of search_faq or generate_response is under way
NoDirectCall ==
  /\ sq_query = <<>>
  /\ sq_scores = <<>>
  /\ sq_result = NotRun
  /\ sq_both_ways = <<>>
  /\ gen_message = <<>>
  /\ gen_history = <<>>
  /\ gen_outcome \in Outcomes /\ gen_outcome.kind = "text"
  /\ gen_result = NotCalled

\* the server after its start: init_database() on a new file, no request yet
ServerStarted ==
  /\ sessions = [s \in SessionIds |-> NoRow]
  /\ workers = [w \in Workers |-> IdleWorker]
  /\ sent = Sent(0, NoResponse)
  /\ clock = 0
  /\ requests = 0
  /\ served = [s \in SessionIds |-> 0]
  /\ cleared = [s \in SessionIds |-> FALSE]

\* the server with the corpus of the end-to-end scenarios loaded
Init ==
  /\ faq_data = <<FAQ_ROW>>
  /\ gemini_ai_defined = TRUE
  /\ frontend = NoFrontend
  /\ NoLauncher
  /\ NoDirectCall
  /\ ServerStarted

\* the answers to a request that is rejected: 400 for a missing or empty
\* field; for a body that is no JSON object, the 400 of `if not data` when
\* get_json() returns None, the 500 of the except branch when it raises
RejectResponses(data) ==
  IF data.json
    THEN { TextResponse(400,
             "Invalid request: 'session_id' and 'message' are required") }
    ELSE { TextResponse(400, "Invalid request: No JSON data provided"),
           TextResponse(500, "Internal server error.") }

\* POST /chat rejected: no JSON body, or session_id or message missing or empty
ChatReject(w, data) ==
  /\ workers[w].pc = "idle"
  /\ ~ValidChat(data)
  /\ \E response \in RejectResponses(data) : sent' = Sent(w, response)
  /\ UNCHANGED <<faq_data, gemini_ai_defined, frontend, launcherVars, searchVars, genVars, sessions, workers, clock,
                 requests, served, cleared>>

\* POST /chat accepted: conversation_history = get_session_history(..) or []
ChatBegin(w, data, limit) ==
  /\ workers[w].pc = "idle"
  /\ ValidChat(data)
  /\ requests < limit
  /\ requests' = requests + 1
  /\ workers' = [workers EXCEPT ![w] =
       [pc |-> "loaded", session_id |-> data.session_id, message |-> data.message,
        conversation_history |-> get_session_history(sessions, data.session_id),
        reply |-> <<>>, source |-> "", context |-> NotRun, service |-> <<>>]]
  /\ UNCHANGED <<faq_data, gemini_ai_defined, frontend, launcherVars, searchVars, genVars, sessions, sent, clock, served,
                 cleared>>

\* reply = faq_search.search_faq(message); source = "FAQ"
\* if not reply: reply = gemini_ai.generate_response(...); source = "Gemini AI"
\* (an exception leaving generate_response would end in the handler's
\* except branch: 500)
ChatReply(w) ==
  LET me  == workers[w]
      faq == search_faq(me.message, faq_data)
  IN  /\ me.pc = "loaded"
      /\ IF faq # <<>>
           THEN /\ workers' = [workers EXCEPT ![w].pc = "replied",
                                              ![w].reply = faq,
                                              ![w].source = SOURCE_FAQ]
                /\ UNCHANGED sent
           ELSE /\ gemini_ai_defined
                /\ \E outcome \in ServiceOutcomes :
                  LET gen == generate_response(me.message,
                                               me.conversation_history, outcome)
                  IN  IF gen.raised
                        THEN /\ workers' = [workers EXCEPT ![w] = IdleWorker]
                             /\ sent' = Sent(w, TextResponse(500,
                                                 "Internal server error."))
                        ELSE /\ workers' = [workers EXCEPT
                                  ![w].pc = "replied",
                                  ![w].reply = gen.value,
                                  ![w].source = SOURCE_AI,
                                  ![w].context = gen.prompt,
                                  ![w].service = gen.calls]
                             /\ UNCHANGED sent
      /\ UNCHANGED <<faq_data, gemini_ai_defined, frontend, launcherVars, searchVars, genVars, sessions, clock, requests,
                     served, cleared>>

\* conversation_history.append(new_entry); save_session_history(...); 200
ChatSave(w) ==
  LET me    == workers[w]
      entry == NewEntry(me.message, me.reply, me.source, clock)
  IN  /\ me.pc = "replied"
      /\ clock' = clock + 1
      /\ sessions' = save_session_history(sessions, me.session_id,
                                          Append(me.conversation_history, entry))
      /\ served' = [served EXCEPT ![me.session_id] = @ + 1]
      /\ cleared' = [cleared EXCEPT ![me.session_id] = FALSE]
      /\ workers' = [workers EXCEPT ![w] = IdleWorker]
      /\ sent' = Sent(w, ReplyResponse(me.reply, me.source))
      /\ UNCHANGED <<faq_data, gemini_ai_defined, frontend, launcherVars, searchVars, genVars, requests>>

\* POST /reset with a session_id: clear_session_history(session_id); 200
Reset(w, session_id) ==
  /\ workers[w].pc = "idle"
  /\ sessions' = clear_session_history(sessions, session_id)
  /\ served' = [served EXCEPT ![session_id] = 0]
  /\ cleared' = [cleared EXCEPT ![session_id] =
                   @ \/ get_session_history(sessions, session_id) # <<>>]
  /\ sent' = Sent(w, TextResponse(200, "Session " \o session_id
                                         \o " history cleared successfully"))
  /\ UNCHANGED <<faq_data, gemini_ai_defined, frontend, launcherVars, searchVars, genVars, workers, clock, requests>>

\* one step of the handler running on worker w
Handle(w, limit) ==
  \/ \E data \in ChatBodies : ChatReject(w, data)
  \/ \E data \in ChatBodies : ChatBegin(w, data, limit)
  \/ ChatReply(w)
  \/ ChatSave(w)
  \/ \E session_id \in SessionIds : Reset(w, session_id)

\* requests are handled concurrently, each on its own worker
Next == \E w \in Workers : Handle(w, MaxRequests)

Spec == Init /\ [][Next]_vars

\* requests are handled one at a time
NextSerial == Handle(1, MaxSerialRequests)

SpecSerial == Init /\ [][NextSerial]_vars

(***************************************************************************)
(* Direct calls of search_faq and of generate_response                     *)
(***************************************************************************)

\* faq_search = FAQSearch() on any corpus, then search_faq(query)
InitSearch ==
  /\ faq_data \in Corpora
  /\ gemini_ai_defined = TRUE
  /\ frontend = NoFrontend
  /\ NoLauncher
  /\ sq_query \in Queries
  /\ sq_scores = <<>>
  /\ sq_result = NotRun
  /\ sq_both_ways = <<>>
  /\ gen_message = <<>>
  /\ gen_history = <<>>
  /\ gen_outcome \in Outcomes /\ gen_outcome.kind = "text"
  /\ gen_result = NotCalled
  /\ ServerStarted

CallSearch ==
  /\ sq_result = NotRun
  /\ sq_scores' = [i \in 1..Len(faq_data) |-> RowScore(sq_query, faq_data[i])]
  /\ sq_result' = search_faq(sq_query, faq_data)
  /\ UNCHANGED <<faq_data, gemini_ai_defined, frontend, launcherVars, sq_query, sq_both_ways, genVars,
                 serverVars>>

NextSearch == CallSearch

SpecSearch == InitSearch /\ [][NextSearch]_vars

\* the histories generate_response is called with: n turns, the i-th one
\* telling its number, FAQ and AI answers alternating
MaxHistory == 8

Digits == <<"1", "2", "3", "4", "5", "6", "7", "8", "9">>

NthTurn(i, flavour) ==
  NewEntry(<<"q", Digits[i]>>,
           IF (i + flavour) % 2 = 0 THEN FAQ_ANSWER ELSE AI_TEXT,
           IF (i + flavour) % 2 = 0 THEN SOURCE_FAQ ELSE SOURCE_AI,
           i)

Histories ==
  { [i \in 1..n |-> NthTurn(i, flavour)] : n \in 0..MaxHistory, flavour \in {0, 1} }

\* gemini_ai = GeminiAI(), then generate_response(message, history)
InitGenerate ==
  /\ faq_data = <<FAQ_ROW>>
  /\ gemini_ai_defined = TRUE
  /\ frontend = NoFrontend
  /\ NoLauncher
  /\ sq_query = <<>>
  /\ sq_scores = <<>>
  /\ sq_result = NotRun
  /\ sq_both_ways = <<>>
  /\ gen_message \in Messages
  /\ gen_history \in Histories
  /\ gen_outcome \in Outcomes
  /\ gen_result = NotCalled
  /\ ServerStarted

CallGenerate ==
  /\ gen_result = NotCalled
  /\ gen_result' = generate_response(gen_message, gen_history, gen_outcome)
  /\ UNCHANGED <<faq_data, gemini_ai_defined, frontend, launcherVars, searchVars, gen_message, gen_history, gen_outcome,
                 serverVars>>

NextGenerate == CallGenerate

SpecGenerate == InitGenerate /\ [][NextGenerate]_vars


(***************************************************************************)
(* The question pass of the scorer on a pair of single words, both ways    *)
(***************************************************************************)

\* single words: substrings of one another, equal up to case, or unrelated
W_PASS == <<"p","a","s","s">>

W_PASSWORD == <<"p","a","s","s","w","o","r","d">>

W_PASS_CAPS == <<"P","A","S","S">>

W_WORD == <<"W","o","r","d">>

W_SS == <<"s","s">>

W_RESET == <<"r","e","s","e","t">>

W_SET == <<"s","e","t">>

W_S == <<"s">>

W_SWORD == <<"s","w","o","r","d">>

W_Q == <<"R","e","s","e","t","?">>

Words == { W_PASS, W_PASSWORD, W_PASS_CAPS, W_WORD, W_SS, W_RESET, W_SET, W_S, W_SWORD, W_Q }

\* search_faq(a) on a corpus whose one row has the question b
InitSymmetry ==
  /\ sq_query \in Words
  /\ \E b \in Words : faq_data = <<Row(b, T_Z, NaN)>>
  /\ gemini_ai_defined = TRUE
  /\ frontend = NoFrontend
  /\ NoLauncher
  /\ sq_scores = <<>>
  /\ sq_result = NotRun
  /\ sq_both_ways = <<>>
  /\ gen_message = <<>>
  /\ gen_history = <<>>
  /\ gen_outcome \in Outcomes /\ gen_outcome.kind = "text"
  /\ gen_result = NotCalled
  /\ ServerStarted

\* the question pass for the query a and the question b, and the one for the
\* query b and the question a
CallBothWays ==
  LET a == sq_query
      b == faq_data[1].question
  IN  /\ sq_both_ways = <<>>
      /\ sq_both_ways' = <<QuestionScore(a, Row(b, T_Z, NaN)),
                           QuestionScore(b, Row(a, T_Z, NaN))>>
      /\ UNCHANGED <<faq_data, gemini_ai_defined, frontend, launcherVars, sq_query, sq_scores, sq_result,
                     genVars, serverVars>>

NextSymmetry == CallBothWays

SpecSymmetry == InitSymmetry /\ [][NextSymmetry]_vars

(***************************************************************************)
(* app.py: the requests that end in the except branches, and /reset with   *)
(* a body it does not accept                                               *)
(***************************************************************************)

\* the chat requests accepted in one run with failing components
MaxFaultRequests == 2

\* bodies of POST /reset: only session_id is read
ResetInvalidBodies == { NoJson, Body("None", Missing), Body("", Missing) }

\* POST /chat, get_session_history raises (no sessions table, database
\* locked): the except branch answers 500 before anything else runs
ChatLoadFails(w, data) ==
  /\ workers[w].pc = "idle"
  /\ ValidChat(data)
  /\ sent' = Sent(w, TextResponse(500, "Internal server error."))
  /\ UNCHANGED <<faq_data, gemini_ai_defined, frontend, launcherVars, searchVars, genVars, sessions,
                 workers, clock, requests, served, cleared>>

\* no FAQ match and the name gemini_ai is not defined: NameError, 500
ChatReplyFails(w) ==
  /\ workers[w].pc = "loaded"
  /\ search_faq(workers[w].message, faq_data) = <<>>
  /\ ~gemini_ai_defined
  /\ workers' = [workers EXCEPT ![w] = IdleWorker]
  /\ sent' = Sent(w, TextResponse(500, "Internal server error."))
  /\ UNCHANGED <<faq_data, gemini_ai_defined, frontend, launcherVars, searchVars, genVars, sessions,
                 clock, requests, served, cleared>>

\* save_session_history raises before its commit: nothing is written, 500
ChatSaveFails(w) ==
  /\ workers[w].pc = "replied"
  /\ workers' = [workers EXCEPT ![w] = IdleWorker]
  /\ sent' = Sent(w, TextResponse(500, "Internal server error."))
  /\ UNCHANGED <<faq_data, gemini_ai_defined, frontend, launcherVars, searchVars, genVars, sessions,
                 clock, requests, served, cleared>>

\* POST /reset rejected: data.get on None raises (500), `not session_id` (400)
ResetReject(w, data) ==
  /\ workers[w].pc = "idle"
  /\ sent' = Sent(w, IF data.json
                       THEN TextResponse(400, "session_id is required")
                       ELSE TextResponse(500, "Internal server error"))
  /\ UNCHANGED <<faq_data, gemini_ai_defined, frontend, launcherVars, searchVars, genVars, sessions,
                 workers, clock, requests, served, cleared>>

\* POST /reset, clear_session_history raises before its commit: 500
ResetClearFails(w, session_id) ==
  /\ workers[w].pc = "idle"
  /\ sent' = Sent(w, TextResponse(500, "Internal server error"))
  /\ UNCHANGED <<faq_data, gemini_ai_defined, frontend, launcherVars, searchVars, genVars, sessions,
                 workers, clock, requests, served, cleared>>

\* POST /reset, the print that follows the commit in clear_session_history
\* raises (standard output closed or unable to encode the text): the row is
\* deleted and the except branch of reset answers 500
ResetPrintFails(w, session_id) ==
  /\ workers[w].pc = "idle"
  /\ sessions' = clear_session_history(sessions, session_id)
  /\ served' = [served EXCEPT ![session_id] = 0]
  /\ cleared' = [cleared EXCEPT ![session_id] =
                   @ \/ get_session_history(sessions, session_id) # <<>>]
  /\ sent' = Sent(w, TextResponse(500, "Internal server error"))
  /\ UNCHANGED <<faq_data, gemini_ai_defined, frontend, launcherVars, searchVars, genVars, workers,
                 clock, requests>>

\* one step of a request on worker w that ends in an error of a component
Fail(w) ==
  \/ \E data \in ValidBodies : ChatLoadFails(w, data)
  \/ ChatReplyFails(w)
  \/ ChatSaveFails(w)
  \/ \E data \in ResetInvalidBodies : ResetReject(w, data)
  \/ \E session_id \in SessionIds : ResetClearFails(w, session_id)
  \/ \E session_id \in SessionIds : ResetPrintFails(w, session_id)

\* the server started with GeminiAI() having raised or not
InitFaults ==
  /\ faq_data = <<FAQ_ROW>>
  /\ gemini_ai_defined \in BOOLEAN
  /\ frontend = NoFrontend
  /\ NoLauncher
  /\ NoDirectCall
  /\ ServerStarted

\* requests are handled one at a time, any of them may fail
NextFaults == Handle(1, MaxFaultRequests) \/ Fail(1)

SpecFaults == InitFaults /\ [][NextFaults]_vars

(***************************************************************************)
(* One session that keeps chatting                                         *)
(***************************************************************************)

\* the chat requests of the long run: more than either maximum
MaxLongRequests == 101

\* one caller, one session, the question the corpus answers, and resets
NextLong ==
  \/ ChatBegin(1, Body("s1", Q_RESET_TWICE), MaxLongRequests)
  \/ ChatReply(1)
  \/ ChatSave(1)
  \/ Reset(1, "s1")

SpecLong == Init /\ [][NextLong]_vars

(***************************************************************************)
(* Two sessions whose messages tell them apart                             *)
(***************************************************************************)

\* the messages each session sends
MessagesOf(session_id) ==
  IF session_id = "s1" THEN {Q_WEATHER, Q_RESET_TWICE} ELSE {Q_RESET}

IsolationBodies ==
  UNION { { Body(s, m) : m \in MessagesOf(s) } : s \in SessionIds }

NextIsolation ==
  \E w \in Workers :
    \/ \E data \in IsolationBodies : ChatBegin(w, data, MaxRequests)
    \/ ChatReply(w)
    \/ ChatSave(w)
    \/ \E session_id \in SessionIds : Reset(w, session_id)

SpecIsolation == Init /\ [][NextIsolation]_vars

(***************************************************************************)
(* chatbot_frontend.py: the Gradio page of one user, in front of /chat     *)
(***************************************************************************)

\* the page is loaded: session_id_state = gr.State(str(uuid.uuid4())), the
\* chat is empty, nothing has been submitted
FrontendLoaded(session_id) ==
  [phase |-> "ready", session_id_state |-> session_id, message |-> <<>>,
   posts |-> 0, chatbot |-> <<>>]

\* get_bot_response: response.json().get("reply", ...) after raise_for_status
BotReply(response) ==
  IF response.status = 200
    THEN response.reply
    ELSE <<"E", "r", "r", "o", "r">>

\* the user submits a message: chat_interface, then get_bot_response posts
\* {"session_id": session_id, "message": message} to /chat
Submit(message) ==
  /\ frontend.phase = "ready"
  /\ frontend.posts < MaxSerialRequests
  /\ frontend' = [frontend EXCEPT !.phase = "posted", !.message = message,
                                  !.posts = @ + 1]
  /\ UNCHANGED <<faq_data, gemini_ai_defined, launcherVars, searchVars, genVars, serverVars>>

\* the server takes the request that was posted
Deliver ==
  /\ frontend.phase = "posted"
  /\ requests < frontend.posts
  /\ ChatBegin(1, Body(frontend.session_id_state, frontend.message),
               MaxSerialRequests)

\* the response is back: chat_interface returns bot_response, which the
\* page adds to the chat after the message; the session state is no output
Receive ==
  /\ frontend.phase = "posted"
  /\ requests = frontend.posts
  /\ workers[1].pc = "idle"
  /\ frontend' = [frontend EXCEPT
       !.phase = "ready",
       !.chatbot = Append(@, <<frontend.message, BotReply(sent.response)>>)]
  /\ UNCHANGED <<faq_data, gemini_ai_defined, launcherVars, searchVars, genVars, serverVars>>

\* the "Clear Chat" button (clear_btn): the chat shown is emptied; no
\* request is sent and session_id_state is not touched
ClearChat ==
  /\ frontend.phase = "ready"
  /\ frontend' = [frontend EXCEPT !.chatbot = <<>>]
  /\ UNCHANGED <<faq_data, gemini_ai_defined, launcherVars, searchVars, genVars, serverVars>>

\* the server and the page of one user
InitFrontend ==
  /\ faq_data = <<FAQ_ROW>>
  /\ gemini_ai_defined = TRUE
  /\ \E session_id \in SessionIds : frontend = FrontendLoaded(session_id)
  /\ NoLauncher
  /\ NoDirectCall
  /\ ServerStarted

NextFrontend ==
  \/ \E message \in Messages : Submit(message)
  \/ Deliver
  \/ ChatReply(1)
  \/ ChatSave(1)
  \/ Receive
  \/ ClearChat

SpecFrontend == InitFrontend /\ [][NextFrontend]_vars

(***************************************************************************)
(* launcher.py: main, start_backend, start_frontend and the two child      *)
(* processes                                                               *)
(***************************************************************************)

\* sys.argv[1:2]: no argument, or the first one
NoArgument == <<>>

Arguments ==
  { NoArgument, <<"start">>, <<"START">>, <<"test">>, <<"backend">>,
    <<"frontend">>, <<"help">> }

\* sys.argv[1].lower(), for the arguments above
ArgumentLower(argument) == IF argument = "START" THEN "start" ELSE argument

\* command = sys.argv[1].lower() if len(sys.argv) > 1 else "start"
Command(argv) == IF argv = NoArgument THEN "start" ELSE ArgumentLower(argv[1])

Children == {"backend", "frontend"}

\* what requests.get(".../health", timeout=5) does: a response with status
\* 200 or with another status, ConnectionError, or a timeout while reading
\* the response; nothing listens once the backend process has exited
HealthOutcomes(backend) ==
  IF backend = "running"
    THEN {"200", "other_status", "connection_error", "read_timeout"}
    ELSE {"connection_error"}

\* process.terminate(): the signal stops a process that runs
Terminate(state) == IF state = "running" THEN "terminated" ELSE state

\* main, from its first line to the branch of its command
Started(argv) ==
  [pc |-> "main", argv |-> argv, command |-> "", backend_process |-> FALSE,
   frontend_process |-> FALSE, health |-> "none", output |-> ""]

\* main returns, `output` being the last line it printed
Returned(output) == [launcher EXCEPT !.pc = "returned", !.output = output]

\* python launcher.py [command]
InitLauncher ==
  /\ faq_data = <<FAQ_ROW>>
  /\ gemini_ai_defined = TRUE
  /\ frontend = NoFrontend
  /\ \E argv \in Arguments : launcher = Started(argv)
  /\ processes = [p \in Children |-> "none"]
  /\ NoDirectCall
  /\ ServerStarted

\* if not Path("app.py").exists() or not Path("chatbot_frontend.py").exists():
\* return; then the command is read
MainDirectory(present) ==
  /\ launcher.pc = "main"
  /\ launcher' = IF present
                   THEN [launcher EXCEPT !.pc = "dispatch",
                                         !.command = Command(launcher.argv)]
                   ELSE Returned("Please run this script from the project root")
  /\ UNCHANGED <<faq_data, gemini_ai_defined, frontend, processes, searchVars,
                 genVars, serverVars>>

\* the else branch of main: the usage text
Usage ==
  /\ launcher.pc = "dispatch"
  /\ launcher.command = "help"
  /\ launcher' = Returned("Usage: python launcher.py [command]")
  /\ UNCHANGED <<faq_data, gemini_ai_defined, frontend, processes, searchVars,
                 genVars, serverVars>>

\* what check_env_file finds: the file with a key, the file with the
\* placeholder of the template, no file but the template, neither
EnvFiles == {"key", "placeholder", "template_only", "nothing"}

\* the line check_env_file prints last when it returns False
EnvFileMessage(env_file) ==
  IF env_file = "placeholder"
    THEN "Please set your Gemini API key in the .env file"
  ELSE IF env_file = "template_only"
    THEN "Created .env file. Please edit it with your Gemini API key."
  ELSE "No env_example.txt file found"

\* if not check_requirements(): return; if not check_env_file(): return
\* (the frontend command checks the requirements only)
Checks(requirements, env_file) ==
  /\ launcher.pc = "dispatch"
  /\ launcher.command # "help"
  /\ launcher' =
       IF ~requirements
         THEN Returned("Please install requirements: pip install -r requirements.txt")
       ELSE IF launcher.command # "frontend" /\ env_file # "key"
         THEN Returned(EnvFileMessage(env_file))
       ELSE [launcher EXCEPT !.pc = "checked",
                             !.output = IF launcher.command = "frontend"
                                          THEN "All required packages are installed"
                                          ELSE "Environment configuration looks good"]
  /\ UNCHANGED <<faq_data, gemini_ai_defined, frontend, processes, searchVars,
                 genVars, serverVars>>

\* start_backend: subprocess.Popen([sys.executable, "app.py"], ...); when
\* it raises, the outer except returns None and main returns
BackendPopen(raises) ==
  /\ launcher.pc = "checked"
  /\ launcher.command \in {"start", "test", "backend"}
  /\ IF raises
       THEN /\ launcher' = Returned("Error starting backend")
            /\ UNCHANGED processes
       ELSE /\ launcher' = [launcher EXCEPT !.pc = "backend_sleep",
                              !.output = "Waiting for backend to start..."]
            /\ processes' = [processes EXCEPT !.backend = "running"]
  /\ UNCHANGED <<faq_data, gemini_ai_defined, frontend, searchVars, genVars,
                 serverVars>>

\* start_backend after time.sleep(3): the health check. Status 200: the
\* process is returned. Another status, or ConnectionError: terminate() and
\* None. Any other exception (a read timeout is no ConnectionError) ends in
\* the outer except, which returns None without terminate(). On None main
\* returns.
BackendHealth(outcome) ==
  /\ launcher.pc = "backend_sleep"
  /\ outcome \in HealthOutcomes(processes.backend)
  /\ IF outcome = "200"
       THEN /\ launcher' = [launcher EXCEPT !.pc = "backend_up",
                              !.backend_process = TRUE, !.health = outcome,
                              !.output = "Backend server started successfully"]
            /\ UNCHANGED processes
       ELSE IF outcome = "other_status"
       THEN /\ launcher' = [Returned("Backend server failed to start properly")
                              EXCEPT !.health = outcome]
            /\ processes' = [processes EXCEPT !.backend = Terminate(@)]
       ELSE IF outcome = "connection_error"
       THEN /\ launcher' = [Returned("Backend server is not responding")
                              EXCEPT !.health = outcome]
            /\ processes' = [processes EXCEPT !.backend = Terminate(@)]
       ELSE /\ launcher' = [Returned("Error starting backend")
                              EXCEPT !.health = outcome]
            /\ UNCHANGED processes
  /\ UNCHANGED <<faq_data, gemini_ai_defined, frontend, searchVars, genVars,
                 serverVars>>

\* start_frontend: subprocess.Popen([sys.executable, "chatbot_frontend.py"]);
\* when it raises, None: the start command terminates the backend and
\* returns, the frontend command returns
FrontendPopen(raises) ==
  /\ \/ launcher.pc = "backend_up" /\ launcher.command = "start"
     \/ launcher.pc = "checked" /\ launcher.command = "frontend"
  /\ IF raises
       THEN /\ launcher' = Returned("Error starting frontend")
            /\ processes' = IF launcher.command = "start"
                              THEN [processes EXCEPT !.backend = Terminate(@)]
                              ELSE processes
       ELSE /\ launcher' = [launcher EXCEPT !.pc = "frontend_up",
                              !.frontend_process = TRUE,
                              !.output = "Frontend server started successfully"]
            /\ processes' = [processes EXCEPT !.frontend = "running"]
  /\ UNCHANGED <<faq_data, gemini_ai_defined, frontend, searchVars, genVars,
                 serverVars>>

\* the test command: try: run_tests() finally: backend_process.terminate()
RunTests(passed) ==
  /\ launcher.pc = "backend_up"
  /\ launcher.command = "test"
  /\ launcher' = Returned(IF passed THEN "All tests passed!"
                                    ELSE "Some tests failed")
  /\ processes' = [processes EXCEPT !.backend = Terminate(@)]
  /\ UNCHANGED <<faq_data, gemini_ai_defined, frontend, searchVars, genVars,
                 serverVars>>

\* the start command, the loop: if backend_process.poll() is not None:
\* break; if frontend_process.poll() is not None: break. After the loop main
\* ends: nothing is terminated.
MonitorBreak ==
  /\ launcher.pc = "frontend_up"
  /\ launcher.command = "start"
  /\ \E p \in Children : processes[p] # "running"
  /\ launcher' = IF processes.backend # "running"
                   THEN Returned("Backend process stopped unexpectedly")
                   ELSE Returned("Frontend process stopped unexpectedly")
  /\ UNCHANGED <<faq_data, gemini_ai_defined, frontend, processes, searchVars,
                 genVars, serverVars>>

\* the start command, except KeyboardInterrupt: both are terminated
MonitorInterrupt ==
  /\ launcher.pc = "frontend_up"
  /\ launcher.command = "start"
  /\ launcher' = Returned("Both servers stopped")
  /\ processes' = [p \in Children |-> Terminate(processes[p])]
  /\ UNCHANGED <<faq_data, gemini_ai_defined, frontend, searchVars, genVars,
                 serverVars>>

\* the process the backend or the frontend command waits for
Waited ==
  IF launcher.command = "backend" /\ launcher.pc = "backend_up" THEN {"backend"}
  ELSE IF launcher.command = "frontend" /\ launcher.pc = "frontend_up"
    THEN {"frontend"}
  ELSE {}

\* the backend and the frontend command: process.wait() returns
WaitReturns ==
  /\ \E p \in Waited : processes[p] # "running"
  /\ launcher' = [launcher EXCEPT !.pc = "returned"]
  /\ UNCHANGED <<faq_data, gemini_ai_defined, frontend, processes, searchVars,
                 genVars, serverVars>>

\* the backend and the frontend command: KeyboardInterrupt during wait()
WaitInterrupt ==
  /\ \E p \in Waited :
       /\ launcher' = Returned(IF p = "backend" THEN "Backend stopped by user"
                                                ELSE "Frontend stopped by user")
       /\ processes' = [processes EXCEPT ![p] = Terminate(@)]
  /\ UNCHANGED <<faq_data, gemini_ai_defined, frontend, searchVars, genVars,
                 serverVars>>

\* Ctrl+C outside the try statements of main, during the sleep of
\* start_backend: KeyboardInterrupt is no Exception, it leaves main, which
\* does not return; nothing is terminated
SleepInterrupt ==
  /\ launcher.pc = "backend_sleep"
  /\ launcher' = [launcher EXCEPT !.pc = "interrupted",
                                  !.output = "KeyboardInterrupt"]
  /\ UNCHANGED <<faq_data, gemini_ai_defined, frontend, processes, searchVars,
                 genVars, serverVars>>

\* Ctrl+C during run_tests(): the finally clause terminates the backend,
\* then KeyboardInterrupt leaves main
TestsInterrupt ==
  /\ launcher.pc = "backend_up"
  /\ launcher.command = "test"
  /\ launcher' = [launcher EXCEPT !.pc = "interrupted",
                                  !.output = "KeyboardInterrupt"]
  /\ processes' = [processes EXCEPT !.backend = Terminate(@)]
  /\ UNCHANGED <<faq_data, gemini_ai_defined, frontend, searchVars, genVars,
                 serverVars>>

\* a child process ends by itself
ChildExits(p) ==
  /\ processes[p] = "running"
  /\ processes' = [processes EXCEPT ![p] = "exited"]
  /\ UNCHANGED <<faq_data, gemini_ai_defined, frontend, launcher, searchVars,
                 genVars, serverVars>>

NextLauncher ==
  \/ \E present \in BOOLEAN : MainDirectory(present)
  \/ Usage
  \/ \E requirements \in BOOLEAN, env_file \in EnvFiles :
       Checks(requirements, env_file)
  \/ \E raises \in BOOLEAN : BackendPopen(raises)
  \/ \E outcome \in {"200", "other_status", "connection_error", "read_timeout"} :
       BackendHealth(outcome)
  \/ \E raises \in BOOLEAN : FrontendPopen(raises)
  \/ \E passed \in BOOLEAN : RunTests(passed)
  \/ MonitorBreak
  \/ MonitorInterrupt
  \/ WaitReturns
  \/ WaitInterrupt
  \/ SleepInterrupt
  \/ TestsInterrupt
  \/ \E p \in Children : ChildExits(p)

SpecLauncher == InitLauncher /\ [][NextLauncher]_vars
(***************************************************************************)
(* Properties of search_faq (checked under SpecSearch)                     *)
(***************************************************************************)

\* the call of search_faq has returned
Searched == sq_result # NotRun

\* the greatest score of a row of the corpus (0 for the empty corpus)
MaxScore ==
  LET scores == { RowScore(sq_query, faq_data[i]) : i \in 1..Len(faq_data) } \cup {0}
  IN  CHOOSE m \in scores : \A s \in scores : s <= m

\* the rows that obtain it
BestRows == { i \in 1..Len(faq_data) : RowScore(sq_query, faq_data[i]) = MaxScore }

\* C1: search_faq returns the answer of a best-scoring row if and only if the
\* best score is strictly greater than the threshold; a best score equal to
\* the threshold yields the empty string.
C1_StrictThreshold ==
  Searched =>
    IF MaxScore > MATCH_THRESHOLD
      THEN \E i \in BestRows : sq_result = faq_data[i].answer
      ELSE sq_result = <<>>

\* a best score exactly at the threshold: no match
C1_Witness ==
  /\ Searched
  /\ MaxScore = MATCH_THRESHOLD
  /\ sq_result = <<>>

\* the words of a string, as the places of its maximal runs of characters
\* that are not whitespace
WordSpans(s) ==
  { span \in (1..Len(s)) \X (1..Len(s)) :
      /\ span[1] <= span[2]
      /\ \A k \in span[1]..span[2] : ~IsSpace(s[k])
      /\ (span[1] = 1 \/ IsSpace(s[span[1] - 1]))
      /\ (span[2] = Len(s) \/ IsSpace(s[span[2] + 1])) }

WordAt(s, span) == SubSeq(s, span[1], span[2])

\* the pairs of a word of s and a word of t of which one is a substring of
\* the other
OverlappingPairs(s, t) ==
  { pair \in WordSpans(s) \X WordSpans(t) :
      \/ StrIn(WordAt(s, pair[1]), WordAt(t, pair[2]))
      \/ StrIn(WordAt(t, pair[2]), WordAt(s, pair[1])) }

\* the keywords of a row that are substrings of the lowercased query
MatchingKeywords(query, row) ==
  IF row.keywords = NaN
    THEN {}
    ELSE { span \in WordSpans(row.keywords) :
             StrIn(Lower(WordAt(row.keywords, span)), Lower(query)) }

\* 2 per question pair, 1 per keyword, 0.5 per answer pair, in units of 0.5
ClaimedScore(query, row) ==
  4 * Cardinality(OverlappingPairs(Lower(query), Lower(row.question)))
    + 2 * Cardinality(MatchingKeywords(query, row))
    + 1 * Cardinality(OverlappingPairs(Lower(query), Lower(row.answer)))

\* C4: the score of a (query, row) pair is 2 per pair of a query word and a
\* question word of which one is a substring of the other, plus 1 per keyword
\* that is a substring of the lowercased query, plus 0.5 per such pair of a
\* query word and an answer word; a row without keywords gets 0 for keywords.
C4_ScoreFormula ==
  Searched =>
    /\ Len(sq_scores) = Len(faq_data)
    /\ \A i \in 1..Len(faq_data) :
         sq_scores[i] = ClaimedScore(sq_query, faq_data[i])

\* scenario 1 scored: 6 question pairs, 2 keywords, 3 answer pairs (15.5)
C4_Witness ==
  /\ Searched
  /\ sq_query = Q_RESET
  /\ \E i \in 1..Len(faq_data) :
       /\ faq_data[i] = FAQ_ROW
       /\ sq_scores[i] = 4 * 6 + 2 * 2 + 1 * 3

\* C5: when several rows obtain the same greatest score and it is above the
\* threshold, search_faq returns the answer of the first of them.
C5_FirstBestWins ==
  (Searched /\ MaxScore > MATCH_THRESHOLD) =>
    LET first == CHOOSE i \in BestRows : \A j \in BestRows : i <= j
    IN  sq_result = faq_data[first].answer

\* two rows with different answers tie above the threshold: the first wins
C5_Witness ==
  /\ Searched
  /\ MaxScore > MATCH_THRESHOLD
  /\ \E i, j \in BestRows :
       /\ i < j
       /\ faq_data[i].answer # faq_data[j].answer
       /\ sq_result = faq_data[i].answer


\* C15: for the empty corpus search_faq returns the empty string, whatever
\* the query, no row being scored.
C15_EmptyCorpus ==
  (Searched /\ faq_data = <<>>) => (sq_result = <<>> /\ sq_scores = <<>>)

\* the query that matches the scenario record, asked of the empty corpus
C15_Witness ==
  /\ Searched
  /\ faq_data = <<>>
  /\ sq_query = Q_RESET_TWICE
  /\ sq_result = <<>>

\* the query is empty or made of whitespace only
BlankQuery == \A k \in 1..Len(sq_query) : IsSpace(sq_query[k])

\* C16: for the empty query and for a query of whitespace only, every row
\* with a non-empty question and answer scores 0, its keywords included, and
\* search_faq returns the empty string.
C16_BlankQueryScoresZero ==
  (Searched /\ BlankQuery) =>
    /\ \A i \in 1..Len(faq_data) :
         (faq_data[i].question # <<>> /\ faq_data[i].answer # <<>>) =>
           sq_scores[i] = 0
    /\ sq_result = <<>>

\* a query of two spaces against a row whose keywords field has spaces at
\* both ends and a double space within
C16_Witness ==
  /\ Searched
  /\ sq_query = Q_BLANK
  /\ \E i \in 1..Len(faq_data) :
       /\ faq_data[i].keywords = T_KW
       /\ sq_scores[i] = 0

\* the two question passes of a pair of words have been computed
ScoredBothWays == sq_both_ways # <<>>

\* C17: for two single words a and b, the question pass adds the same to the
\* score for the query a and the question b as for the query b and the
\* question a.
C17_SubstringSymmetry ==
  ScoredBothWays => sq_both_ways[1] = sq_both_ways[2]

\* "pass" against "password", and back: 2 both ways
C17_Witness ==
  /\ ScoredBothWays
  /\ sq_query = W_PASS
  /\ faq_data[1].question = W_PASSWORD
  /\ sq_both_ways = <<QUESTION_MATCH, QUESTION_MATCH>>
(***************************************************************************)
(* Properties of generate_response (checked under SpecGenerate)            *)
(***************************************************************************)

\* the call of generate_response has ended
Generated == gen_result # NotCalled

\* C7: generate_response never lets an exception out: whether the call of
\* generate_content fails or the reading of its text does, it returns a
\* string, and the string contains the text of the error.
C7_NeverRaises ==
  Generated =>
    /\ ~gen_result.raised
    /\ gen_outcome.kind # "text" => StrIn(gen_outcome.error, gen_result.value)

\* reading response.text failed, and the apology holding the error came back
C7_Witness ==
  /\ Generated
  /\ gen_outcome.kind = "text_raises"
  /\ ~gen_result.raised
  /\ gen_result.value = APOLOGY \o ERR_NO_TEXT

\* where the text a is found first in the text b (0 when it is not in b)
FirstIndex(a, b) ==
  IF StrIn(a, b)
    THEN 1 + CHOOSE k \in 0..(Len(b) - Len(a)) :
               /\ SubSeq(b, k + 1, k + Len(a)) = a
               /\ \A j \in 0..(k - 1) : SubSeq(b, j + 1, j + Len(a)) # a
    ELSE 0

\* the turns of the history that the context has to hold: the last 5
InWindow(i) == i > Len(gen_history) - 5 /\ i <= Len(gen_history)

\* C8: the context holds the last 5 turns of the history at most (all when
\* there are 5 or fewer, none when it is empty), in their order, after the
\* system prompt and before the current message; of 8 turns it holds the
\* turns 4 to 8.
C8_ContextWindow ==
  Generated =>
    LET n       == Len(gen_history)
        context == gen_result.prompt
        at(i)   == FirstIndex(RenderTurn(gen_history[i]), context)
        current == FirstIndex(S_CURRENT \o gen_message, context)
    IN  /\ SubSeq(context, 1, Len(SYSTEM_PROMPT)) = SYSTEM_PROMPT
        /\ current > 0
        /\ current + Len(S_CURRENT \o gen_message) - 1 = Len(context)
        /\ \A i \in 1..n : at(i) > 0 <=> InWindow(i)
        /\ \A i \in 1..n : InWindow(i) => at(i) > Len(SYSTEM_PROMPT) /\ at(i) < current
        /\ \A i, j \in 1..n : (InWindow(i) /\ InWindow(j) /\ i < j) => at(i) < at(j)
        /\ n = 0 => ~StrIn(S_USER, context)

\* a history of 8 turns: the turns 4 to 8 are in the context, 1 to 3 are not
C8_Witness ==
  /\ Generated
  /\ Len(gen_history) = 8
  /\ \A i \in 4..8 : StrIn(RenderTurn(gen_history[i]), gen_result.prompt)
  /\ \A i \in 1..3 : ~StrIn(RenderTurn(gen_history[i]), gen_result.prompt)

(***************************************************************************)
(* Properties of the /chat and /reset handlers                             *)
(***************************************************************************)

\* the step in which worker w stores the new history and answers 200
SaveStep(w) == workers[w].pc = "replied" /\ workers'[w].pc = "idle"

\* the step in which worker w gets its reply, from the corpus or the fallback
ReplyStep(w) == workers[w].pc = "loaded" /\ workers'[w].pc = "replied"

\* the step in which a worker handles POST /reset for session_id
ResetStep(session_id) ==
  /\ \A w \in Workers : workers[w].pc = workers'[w].pc
  /\ sent' = Sent(sent'.worker, TextResponse(200,
               "Session " \o session_id \o " history cleared successfully"))
  /\ sent'.worker \in Workers
  /\ served'[session_id] = 0
  /\ requests' = requests /\ clock' = clock
  /\ workers' = workers

\* some row of the corpus scores above the threshold for the message
Matches(message) ==
  \E i \in 1..Len(faq_data) : RowScore(message, faq_data[i]) > MATCH_THRESHOLD

\* the reply of worker w is ready: the positions after ChatReply
Replied(w) == workers[w].pc = "replied"

\* C2 (as claimed): with the corpus of the one password record, the message
\* "how do i reset my password" scores above the threshold and is answered
\* "Visit Settings > Password." with source FAQ, the fallback not being called.
C2_Scenario1 ==
  \A w \in Workers :
    (Replied(w) /\ workers[w].message = Q_RESET /\ faq_data = <<FAQ_ROW>>) =>
      /\ RowScore(Q_RESET, FAQ_ROW) > MATCH_THRESHOLD
      /\ workers[w].reply = FAQ_ANSWER
      /\ workers[w].source = "FAQ"
      /\ workers[w].context = NotRun

\* the routing of the request of a handler whose reply is ready, the tag of
\* the fallback being `tag`
Routed(me, tag) ==
  me.pc = "replied" =>
    IF Matches(me.message)
      THEN /\ me.reply \in { faq_data[i].answer : i \in 1..Len(faq_data) }
           /\ me.source = "FAQ"
           /\ me.context = NotRun
      ELSE /\ me.source = tag
           /\ me.context # NotRun

\* C3 (as claimed): the reply is the FAQ answer with source "FAQ" exactly when
\* some row scores above the threshold; otherwise the fallback is called and
\* the source is "AI".
C3_SourceTagAI == \A w \in Workers : Routed(workers[w], "AI")

\* C3 (amended): the reply is the FAQ answer with source "FAQ" exactly when
\* some row scores above the threshold; otherwise the fallback is called and
\* the source, returned and stored, is "Gemini AI".
C3_SourceTag ==
  [][\A w \in Workers :
       /\ ReplyStep(w) => Routed(workers'[w], "Gemini AI")
       /\ SaveStep(w) =>
            LET stored == get_session_history(sessions', workers[w].session_id)
            IN  /\ sent'.response.status = 200
                /\ sent'.response.source = workers[w].source
                /\ stored[Len(stored)].source = workers[w].source]_vars

\* scenario 2 answered: the weather question, answered by the fallback, is
\* returned and stored with the source "Gemini AI"
C3_Witness ==
  /\ sent.response.status = 200
  /\ sent.response.source = "Gemini AI"
  /\ \E s \in SessionIds :
       LET stored == get_session_history(sessions, s)
       IN  /\ stored # <<>>
           /\ stored[Len(stored)].user = Q_WEATHER
           /\ stored[Len(stored)].source = "Gemini AI"
           /\ stored[Len(stored)].assistant = sent.response.reply

\* C6: requests being handled one at a time, a chat request answered 200
\* stores the history stored before followed by one new Turn, made of the
\* request's message and of the reply and the source returned to the caller.
C6_AppendOneTurn ==
  [][\A w \in Workers :
       SaveStep(w) =>
         LET me     == workers[w]
             before == get_session_history(sessions, me.session_id)
             after  == get_session_history(sessions', me.session_id)
         IN  /\ sent' = Sent(w, ReplyResponse(me.reply, me.source))
             /\ Len(after) = Len(before) + 1
             /\ SubSeq(after, 1, Len(before)) = before
             /\ after[Len(after)].user = me.message
             /\ after[Len(after)].assistant = sent'.response.reply
             /\ after[Len(after)].source = sent'.response.source]_vars

\* a third Turn stored after two that are kept, and returned to the caller
C6_Witness ==
  \E s \in SessionIds :
    LET stored == get_session_history(sessions, s)
    IN  /\ Len(stored) = 3
        /\ stored[1].timestamp < stored[2].timestamp
        /\ stored[2].timestamp < stored[3].timestamp
        /\ sent.response = ReplyResponse(stored[3].assistant, stored[3].source)

\* C9: requests being handled one at a time, after a reset of a session the
\* stored history read back is empty, and the next chat request of the session
\* starts from the empty history: its context holds no previous turn and the
\* history it stores has one Turn.
C9_ResetEmpties ==
  [][\A s \in SessionIds :
       /\ ResetStep(s) => get_session_history(sessions', s) = <<>>
       /\ cleared'[s] => get_session_history(sessions', s) = <<>>
       /\ \A w \in Workers :
            /\ (cleared'[s] /\ workers'[w].pc # "idle" /\ workers'[w].session_id = s) =>
                 /\ workers'[w].conversation_history = <<>>
                 /\ workers'[w].context \in
                      { NotRun,
                        SYSTEM_PROMPT \o S_BLANK_LINE \o S_CURRENT \o workers'[w].message }
            /\ (cleared[s] /\ SaveStep(w) /\ workers[w].session_id = s) =>
                 Len(get_session_history(sessions', s)) = 1]_vars

\* a session with a stored history was reset, and its next chat request
\* has its reply from the fallback, built without any previous turn
C9_Witness ==
  \E s \in SessionIds, w \in Workers :
    /\ cleared[s]
    /\ Replied(w)
    /\ workers[w].session_id = s
    /\ workers[w].conversation_history = <<>>
    /\ workers[w].context # NotRun
    /\ ~StrIn(S_PREVIOUS, workers[w].context)

\* C10: requests of one session are not coordinated: a chat request stores
\* the history it read at its start followed by its own Turn, whatever has been
\* stored since, so that of two requests that read the same history the one
\* that stores last wins and the Turn of the other is lost.
C10_LastWriteWins ==
  [][\A w \in Workers :
       SaveStep(w) =>
         LET me == workers[w]
         IN  /\ get_session_history(sessions', me.session_id) =
                  Append(me.conversation_history,
                         NewEntry(me.message, me.reply, me.source, clock))
             /\ sent'.response.status = 200]_vars

\* two chat requests of one session answered 200 since its last reset, and
\* one Turn stored: both read the empty history, the second save won
C10_Witness ==
  \E s \in SessionIds :
    /\ served[s] = 2
    /\ \A w \in Workers : workers[w].pc = "idle"
    /\ Len(get_session_history(sessions, s)) = 1


(***************************************************************************)
(* Further properties of the /chat and /reset handlers                     *)
(***************************************************************************)

\* the step in which worker w accepts a chat request and reads its history
BeginStep(w) == workers[w].pc = "idle" /\ workers'[w].pc = "loaded"

\* the Turns of a history are in the order of their timestamps
InOrder(history) ==
  \A i \in 1..(Len(history) - 1) : history[i].timestamp < history[i + 1].timestamp

\* C11: requests being handled one at a time, the stored history of a session
\* holds its Turns in the order the chat requests were handled, and as many
\* Turns as chat requests of the session were answered 200 since its last
\* reset, whatever that number: no maximum of config.py shortens it.
C11_OrderedUncapped ==
  \A s \in SessionIds :
    LET stored == get_session_history(sessions, s)
    IN  /\ Len(stored) = served[s]
        /\ InOrder(stored)

\* more Turns stored than MAX_SESSION_MESSAGES (and MAX_CONVERSATION_HISTORY)
C11_Witness ==
  \E s \in SessionIds :
    /\ Len(get_session_history(sessions, s)) > MAX_SESSION_MESSAGES
    /\ Len(get_session_history(sessions, s)) > MAX_CONVERSATION_HISTORY
    /\ served[s] = Len(get_session_history(sessions, s))

\* the step sends an error response that differs from the last response
ErrorStep == sent' # sent /\ sent'.response.status \in {400, 500}

\* C12: a chat request without JSON body, or whose session_id or message is
\* missing or empty, is answered with an error before anything else runs: no
\* handler ever holds such a request, and the step that answers it leaves the
\* store and the locals of the handlers (history read, reply of the matcher
\* or of the fallback) as they were.
C12_RejectedAtBoundary ==
  [][/\ \A w \in Workers :
          workers'[w].pc # "idle" =>
            /\ workers'[w].session_id \notin {"None", ""}
            /\ workers'[w].message \notin {Missing, <<>>}
     /\ ErrorStep =>
          /\ sessions' = sessions
          /\ workers' = workers
          /\ requests' = requests
          /\ served' = served
          /\ clock' = clock]_vars

\* a request without message answered 400 while a history is stored
C12_Witness ==
  /\ sent.response = TextResponse(400,
         "Invalid request: 'session_id' and 'message' are required")
  /\ \A w \in Workers : workers[w].pc = "idle"
  /\ \E s \in SessionIds : get_session_history(sessions, s) # <<>>

\* the one call of the generation service made for the request of worker
\* record `me` raised
ServiceFailed(me) == me.service = <<"call_raises">>

\* C13: when the generation service fails for a chat request without FAQ
\* match, the request is answered 200 with the apology text (error text
\* included) and the fallback's source, and that reply is stored as the one
\* new Turn of the session; the handler never ends in its except branch.
C13_DegradedReply ==
  [][\A w \in Workers :
       /\ (workers[w].pc = "loaded" /\ workers'[w].pc # "loaded") => ReplyStep(w)
       /\ (ReplyStep(w) /\ ServiceFailed(workers'[w])) =>
            /\ workers'[w].reply = APOLOGY \o ERR_QUOTA
            /\ workers'[w].source = SOURCE_AI
       /\ (SaveStep(w) /\ ServiceFailed(workers[w])) =>
            LET before == get_session_history(sessions, workers[w].session_id)
                after  == get_session_history(sessions', workers[w].session_id)
            IN  /\ sent' = Sent(w, ReplyResponse(APOLOGY \o ERR_QUOTA, SOURCE_AI))
                /\ after = Append(before, after[Len(after)])
                /\ after[Len(after)].assistant = APOLOGY \o ERR_QUOTA
                /\ after[Len(after)].user = workers[w].message]_vars

\* the apology returned with status 200 and stored as the last Turn
C13_Witness ==
  /\ sent.response = ReplyResponse(APOLOGY \o ERR_QUOTA, SOURCE_AI)
  /\ \E s \in SessionIds :
       LET stored == get_session_history(sessions, s)
       IN  /\ stored # <<>>
           /\ stored[Len(stored)].assistant = APOLOGY \o ERR_QUOTA

\* C14: for one chat request the generation service is called at most once,
\* also when the call fails, and not at all when search_faq returned an
\* answer.
C14_AtMostOneCall ==
  [][\A w \in Workers :
       ReplyStep(w) =>
         /\ Len(workers'[w].service) <= 1
         /\ search_faq(workers[w].message, faq_data) # <<>> =>
              /\ workers'[w].service = <<>>
              /\ workers'[w].context = NotRun]_vars

\* a request whose one call of the service failed, in a session that has a
\* Turn answered by the matcher without any call
C14_Witness ==
  \E w \in Workers :
    /\ Replied(w)
    /\ ServiceFailed(workers[w])
    /\ \E i \in 1..Len(workers[w].conversation_history) :
         workers[w].conversation_history[i].source = SOURCE_FAQ

\* the step of the "Clear Chat" button on a chat that shows something
ClearStep == frontend.chatbot # <<>> /\ frontend'.chatbot = <<>>

\* C18 (as claimed): resetting the session from the frontend leaves it with
\* a session id that differs from the one in use before, so that the
\* messages sent afterwards are not sent under the old session id.
C18_ResetNewSession ==
  [][ClearStep => frontend'.session_id_state # frontend.session_id_state]_vars

\* every Turn of the history was sent by the session
OwnTurns(history, session_id) ==
  \A i \in 1..Len(history) : history[i].user \in MessagesOf(session_id)

\* C19: a chat or reset request of a session changes the stored history of
\* no other session, reads the history of its own session only and builds
\* its context from it; the Turns stored for a session and held by its
\* requests are Turns of that session.
C19_SessionIsolation ==
  [][/\ \A s \in SessionIds :
          sessions'[s] # sessions[s] =>
            \/ \E w \in Workers : SaveStep(w) /\ workers[w].session_id = s
            \/ ResetStep(s)
     /\ \A w \in Workers :
          /\ BeginStep(w) =>
               workers'[w].conversation_history =
                 get_session_history(sessions, workers'[w].session_id)
          /\ ReplyStep(w) =>
               workers'[w].context \in
                 { NotRun,
                   BuildContext(workers[w].message, workers[w].conversation_history) }
          /\ workers'[w].pc # "idle" =>
               OwnTurns(workers'[w].conversation_history, workers'[w].session_id)
     /\ \A s \in SessionIds :
          OwnTurns(get_session_history(sessions', s), s)]_vars

\* one session has a Turn stored while a request of the other, started
\* after it, has its reply from the fallback, built without that Turn
C19_Witness ==
  \E w \in Workers, s \in SessionIds :
    /\ Replied(w)
    /\ workers[w].session_id # s
    /\ workers[w].context # NotRun
    /\ get_session_history(sessions, s) # <<>>
    /\ get_session_history(sessions, s)[1].timestamp < clock
    /\ workers[w].conversation_history = <<>>
    /\ ~StrIn(S_PREVIOUS, workers[w].context)

\* C20 (as claimed): a request that ends in an error response leaves the
\* stored history of every session as it was; the store changes only in the
\* step that answers 200.
C20_ErrorsLeaveStore ==
  [][sessions' # sessions => sent'.response.status = 200]_vars

(***************************************************************************)
(* Properties of the launcher                                              *)
(***************************************************************************)

\* C21 (as claimed): with the start command, the frontend process is started
\* only after the backend process was started and its health check returned
\* status 200; when the backend fails its health check or does not respond
\* it is terminated and no frontend process is started; when the frontend
\* fails to start the backend is terminated.
C21_StartOrder ==
  launcher.command = "start" =>
    /\ processes.frontend # "none" =>
         (launcher.health = "200" /\ processes.backend # "none")
    /\ (launcher.pc = "returned" /\ launcher.health \notin {"none", "200"}) =>
         (processes.backend # "running" /\ processes.frontend = "none")
    /\ launcher.output = "Error starting frontend" =>
         processes.backend # "running"

\* C22 (as claimed): when main returns after having started child processes
\* with the start or the test command, every child it started was terminated
\* or has exited: none is left running.
C22_NoChildLeft ==
  (launcher.pc = "returned" /\ launcher.command \in {"start", "test"}) =>
    \A p \in Children : processes[p] # "running"
====
